---- MODULE Spec2Model ----
(***************************************************************************)
(* Model of analysis.py: the script that synthesises student records,     *)
(* clusters them into learning personas with MinMaxScaler + KMeans and    *)
(* writes public/student_data.json.                                       *)
(*                                                                         *)
(* Numbers.  engagement_time has one decimal and is held in tenths;       *)
(* score_raw and the normal noise are held in hundredths; a scaled        *)
(* feature value is the exact fraction <<numerator, denominator>>.        *)
(***************************************************************************)
EXTENDS Integers, Sequences, FiniteSets, TLC

VARIABLES
    pc,               \* the statement group the script is about to run
    source,           \* what the draws of lines 14-19 and 25 yield, per student
    classes, comprehension, attention, focus, retention, engagement_time,
    score_raw, assessment_score,
    df, df_scaled, kmeans, df_output,
    public_exists,    \* the directory 'public' exists
    student_data,     \* public/student_data.json: whether it exists, and its rows
    previous          \* the rows the execution before this one wrote, if any

vars == <<pc, source, classes, comprehension, attention, focus, retention,
          engagement_time, score_raw, assessment_score, df, df_scaled, kmeans,
          df_output, public_exists, student_data, previous>>

arrays == <<classes, comprehension, attention, focus, retention, engagement_time,
            score_raw, assessment_score>>

frames == <<df, df_scaled, kmeans, df_output>>

disk == <<public_exists, student_data>>

\* None, kept apart from every seed (seeds are naturals).
None == -1
NaN == "NaN"

\* ---------------------------------------------------------------- bounds

\* Students per run (the script has 100).
num_students == 4

\* ------------------------------------------------------- 1. data generation

Students == 1..num_students

Digit == <<"0", "1", "2", "3", "4", "5", "6", "7", "8", "9">>

Str(k) == IF k < 10 THEN Digit[k + 1] ELSE Digit[(k \div 10) + 1] \o Digit[(k % 10) + 1]

Pad3(k) == IF k < 10 THEN "00" \o Str(k) ELSE "0" \o Str(k)

student_ids == [i \in Students |-> "S" \o Pad3(i)]

names == [i \in Students |-> "Student_" \o Str(i)]

(* One student's draws: class from {A,B,C}, comprehension in 50..99,       *)
(* attention in 40..94, focus in 45..89, retention in 40..94,              *)
(* engagement_time in 5.0..20.0 (tenths), noise from normal(0, 5)          *)
(* (hundredths).  The sample keeps a low, a middle, a high and a mixed     *)
(* profile; the noises make the score fall below 0, on a half, above 100.  *)
Draws ==
    { [class |-> "A", comprehension |-> 50, attention |-> 40, focus |-> 45,
       retention |-> 40, engagement_time |-> 50, noise |-> -5400],
      [class |-> "B", comprehension |-> 74, attention |-> 67, focus |-> 67,
       retention |-> 67, engagement_time |-> 125, noise |-> 85],
      [class |-> "C", comprehension |-> 98, attention |-> 94, focus |-> 89,
       retention |-> 94, engagement_time |-> 200, noise |-> 0],
      [class |-> "A", comprehension |-> 98, attention |-> 40, focus |-> 89,
       retention |-> 40, engagement_time |-> 50, noise |-> 135] }

\* weights, in hundredths; engagement_time * 2.5 is 25 hundredths per tenth.
weights == [comprehension |-> 30, attention |-> 20, focus |-> 25, retention |-> 15]

ScoreRaw(d) ==
    d.comprehension * weights.comprehension + d.attention * weights.attention
    + d.focus * weights.focus + d.retention * weights.retention
    + d.engagement_time * 25 + d.noise

\* numpy rounds a half to the even neighbour.
Round0(x) ==
    LET q == x \div 100
        r == x % 100
    IN  IF r < 50 THEN q
        ELSE IF r > 50 THEN q + 1
        ELSE IF q % 2 = 0 THEN q ELSE q + 1

\* A clip that forgets the upper bound.
Clip_lower(x, lo, hi) == IF x < lo THEN lo ELSE x

Clip(x, lo, hi) == IF x < lo THEN lo ELSE IF x > hi THEN hi ELSE x

AssessmentScore(raw) == Clip(Round0(raw), 0, 100)

DataFrame(cl, co, at, fo, re, sc, en) ==
    [student_id |-> student_ids, name |-> names, class |-> cl,
     comprehension |-> co, attention |-> at, focus |-> fo,
     retention |-> re, assessment_score |-> sc, engagement_time |-> en]

Generate ==
    /\ pc = "generate"
    /\ classes' = [i \in Students |-> source[i].class]
    /\ comprehension' = [i \in Students |-> source[i].comprehension]
    /\ attention' = [i \in Students |-> source[i].attention]
    /\ focus' = [i \in Students |-> source[i].focus]
    /\ retention' = [i \in Students |-> source[i].retention]
    /\ engagement_time' = [i \in Students |-> source[i].engagement_time]
    /\ score_raw' = [i \in Students |-> ScoreRaw(source[i])]
    /\ assessment_score' = [i \in Students |-> AssessmentScore(ScoreRaw(source[i]))]
    /\ df' = DataFrame(classes', comprehension', attention', focus', retention',
                       assessment_score', engagement_time')
    /\ pc' = "scale"
    /\ UNCHANGED <<source, df_scaled, kmeans, df_output, disk, previous>>

\* ---------------------------------------------------------- 2. clustering

clustering_features ==
    <<"comprehension", "attention", "focus", "retention", "engagement_time">>

Features == 1..Len(clustering_features)

SeqMin(s) == CHOOSE m \in {s[i] : i \in DOMAIN s} : \A i \in DOMAIN s : m <= s[i]

SeqMax(s) == CHOOSE m \in {s[i] : i \in DOMAIN s} : \A i \in DOMAIN s : m >= s[i]

\* A scaler that divides by the spread as it is.
HandleZerosInScale_none(range) == range

\* MinMaxScaler: a feature with no spread gets the scale 1, not 1/0.
HandleZerosInScale(range) == IF range = 0 THEN 1 ELSE range

\* fit_transform of one column: (x - min) / (max - min), row by row.
MinMaxColumn(col) ==
    LET lo == SeqMin(col)
        den == HandleZerosInScale(SeqMax(col) - lo)
    IN  [i \in DOMAIN col |-> <<col[i] - lo, den>>]

\* df[clustering_features] scaled: one row per student, one fraction per feature.
FitTransform(frame) ==
    LET cols == [f \in Features |-> MinMaxColumn(frame[clustering_features[f]])]
    IN  [i \in Students |-> [f \in Features |-> cols[f][i]]]

Scale ==
    /\ pc = "scale"
    /\ df_scaled' = FitTransform(df)
    /\ pc' = "cluster"
    /\ UNCHANGED <<source, arrays, df, kmeans, df_output, disk, previous>>

\* ---- KMeans(n_clusters=3, random_state=42, n_init=10).fit_predict

n_clusters == 3

\* KMeans built without random_state.
random_state_None == None

random_state == 42

n_init == 10

\* KMeans' default iteration bound.
max_iter == 300

\* Candidates per k-means++ seeding step: 2 + int(log(n_clusters)).
n_local_trials == 3

Clusters == 0..(n_clusters - 1)

\* F(v), with v evaluated once.
With(v, F(_)) == CHOOSE r \in {F(x) : x \in {v}} : TRUE

RECURSIVE Gcd(_, _)
Gcd(a, b) == IF b = 0 THEN a ELSE Gcd(b, a % b)

Lcm(a, b) == (a * b) \div Gcd(a, b)

RECURSIVE GcdUpTo(_, _, _)
GcdUpTo(col, k, acc) == IF k = 0 THEN acc ELSE GcdUpTo(col, k - 1, Gcd(acc, col[k][1]))

\* The denominator of feature f once its fractions are in lowest common terms.
ReducedDen(scaled, f) ==
    LET col == [i \in Students |-> scaled[i][f]]
        den == col[1][2]
    IN  den \div GcdUpTo(col, num_students, den)

RECURSIVE LcmDens(_, _)
LcmDens(scaled, f) == IF f = 0 THEN 1 ELSE Lcm(LcmDens(scaled, f - 1), ReducedDen(scaled, f))

(* The scaled matrix on an integer grid: every value times the least       *)
(* common denominator of the features.  Distances between rows, and so     *)
(* every comparison KMeans makes, are those of the scaled matrix times a   *)
(* constant.                                                               *)
Grid(scaled) ==
    LET unit == LcmDens(scaled, Len(clustering_features))
    IN  [i \in Students |->
            [f \in Features |-> (scaled[i][f][1] * unit) \div scaled[i][f][2]]]

(* check_random_state: the generator's stream is a fixed function of an    *)
(* integer seed; with no seed (None) the generator starts from OS entropy, *)
(* anywhere.  A linear congruential step stands in for the Mersenne        *)
(* Twister.                                                                *)
RandomStates(seed) == IF seed # None THEN {seed % 64} ELSE {7, 20}

NextState(s) == (5 * s + 3) % 64

RECURSIVE SumTo(_, _)
SumTo(s, k) == IF k = 0 THEN 0 ELSE s[k] + SumTo(s, k - 1)

Sq(a) == a * a

SqDist(x, y) == SumTo([f \in Features |-> Sq(x[f] - y[f])], Len(clustering_features))

\* random_state.choice(n_samples): floor(u * n) for the uniform u = s / 64.
ChoiceIndex(s) == ((s * num_students) \div 64) + 1

(* np.searchsorted(cumsum(closest), u * pot), clipped to the last index:   *)
(* the first row whose cumulated weight reaches u * pot, u the midpoint    *)
(* (2s + 1) / 128 of the generator's cell.                                 *)
SearchSorted(closest, s) ==
    With([i \in Students |-> SumTo(closest, i)], LAMBDA cumsum :
      With({i \in Students : cumsum[i] * 128 >= (2 * s + 1) * cumsum[num_students]},
           LAMBDA hit :
        IF hit = {} THEN num_students ELSE CHOOSE i \in hit : \A k \in hit : i <= k))

\* The squared distances between the rows, computed once per fit.
PairDist(X) == [i \in Students |-> [k \in Students |-> SqDist(X[i], X[k])]]

\* closest_dist_sq once row cand is a centre too.
MinWith(closest, D, cand) ==
    [i \in Students |-> IF D[i][cand] < closest[i] THEN D[i][cand] ELSE closest[i]]

Potential(closest, D, cand) == SumTo(MinWith(closest, D, cand), num_students)

\* One k-means++ step: n_local_trials candidates, the one that leaves the
\* least potential wins (np.argmin: the first of equals).
RECURSIVE BestCandidate(_, _, _, _, _)
BestCandidate(D, closest, s, t, best) ==
    IF t > n_local_trials THEN [row |-> best, rs |-> s]
    ELSE With(NextState(s), LAMBDA s1 :
         With(SearchSorted(closest, s1), LAMBDA cand :
           IF best = 0 \/ Potential(closest, D, cand) < Potential(closest, D, best)
           THEN BestCandidate(D, closest, s1, t + 1, cand)
           ELSE BestCandidate(D, closest, s1, t + 1, best)))

RECURSIVE PlusPlus(_, _, _, _)
PlusPlus(D, closest, rows, s) ==
    IF Len(rows) = n_clusters THEN [rows |-> rows, rs |-> s]
    ELSE With(BestCandidate(D, closest, s, 1, 0), LAMBDA b :
         With(MinWith(closest, D, b.row), LAMBDA closer :
           With(Append(rows, b.row), LAMBDA more : PlusPlus(D, closer, more, b.rs))))

\* A centre is the sum s of its rows over their number w.
Centre(x) == [s |-> x, w |-> 1]

\* init='k-means++': the rows drawn, as centres, and the generator after.
InitCentroids(X, D, s) ==
    With(NextState(s), LAMBDA s1 :
      With(PlusPlus(D, D[ChoiceIndex(s1)], <<ChoiceIndex(s1)>>, s1), LAMBDA pp :
        [centers |-> [j \in Clusters |-> Centre(X[pp.rows[j + 1]])], rs |-> pp.rs]))

\* |x - c|^2 times c.w^2.
DistNum(x, c) ==
    SumTo([f \in Features |-> Sq(c.w * x[f] - c.s[f])], Len(clustering_features))

\* The nearest centre, the lowest index among equals: centre j is nearer
\* than centre k when d[j] / w[j]^2 < d[k] / w[k]^2.
Nearest(x, centers) ==
    With([j \in Clusters |-> DistNum(x, centers[j])], LAMBDA d :
      With([j \in Clusters |-> Sq(centers[j].w)], LAMBDA w2 :
        CHOOSE j \in Clusters :
            /\ \A k \in Clusters : d[j] * w2[k] <= d[k] * w2[j]
            /\ \A k \in Clusters : k < j => d[k] * w2[j] > d[j] * w2[k]))

EStep(X, centers) == [i \in Students |-> Nearest(X[i], centers)]

Members(labels, j) == {i \in Students : labels[i] = j}

VecSum(X, rows) ==
    [f \in Features |->
        SumTo([i \in Students |-> IF i \in rows THEN X[i][f] ELSE 0], num_students)]

(* _relocate_empty_clusters: the rows farthest from their own centre, the  *)
(* farthest first; among rows equally far the later row comes first, as    *)
(* np.argpartition leaves equal keys.                                      *)
Farther(X, centers, labels, i, k) ==
    LET a == centers[labels[i]]
        b == centers[labels[k]]
        di == DistNum(X[i], a) * Sq(b.w)
        dk == DistNum(X[k], b) * Sq(a.w)
    IN  di > dk \/ (di = dk /\ i > k)

FarRank(X, centers, labels, i) ==
    1 + Cardinality({k \in Students : k # i /\ Farther(X, centers, labels, k, i)})

\* The row that goes to the idx-th empty cluster.
FarFromCenters(X, centers, labels, idx) ==
    CHOOSE i \in Students : FarRank(X, centers, labels, i) = idx

EmptyRank(members, j) == 1 + Cardinality({k \in Clusters : k < j /\ members[k] = {}})

(* The rows of each cluster after relocation: an empty cluster takes one   *)
(* far row, and the cluster that row was in loses it.                      *)
Relocated(X, centers, labels, members) ==
    With(Cardinality({j \in Clusters : members[j] = {}}), LAMBDA n_empty :
      With([idx \in 1..n_empty |-> FarFromCenters(X, centers, labels, idx)], LAMBDA far :
        [j \in Clusters |->
            IF members[j] = {} THEN {far[EmptyRank(members, j)]}
            ELSE members[j] \ {far[idx] : idx \in 1..n_empty}]))

(* The centres recomputed.  A cluster left with no row is not averaged:    *)
(* its sum of centred rows is the zero vector, the mean of the data.       *)
MStep(X, centers, labels) ==
    With([j \in Clusters |-> Members(labels, j)], LAMBDA members :
      With(IF \A j \in Clusters : members[j] # {} THEN members
           ELSE Relocated(X, centers, labels, members), LAMBDA rows :
        [j \in Clusters |->
            IF rows[j] = {} THEN [s |-> VecSum(X, Students), w |-> num_students]
            ELSE [s |-> VecSum(X, rows[j]), w |-> Cardinality(rows[j])]]))

SameCentre(a, b) == \A f \in Features : a.s[f] * b.w = b.s[f] * a.w

\* center_shift_tot <= tol: within the bounds, the centres did not move.
NoShift(old, new) == \A j \in Clusters : SameCentre(old[j], new[j])

(* An iteration is a function of (centers, labels_old) alone, so once a    *)
(* pair comes back after p iterations the loop repeats with period p:      *)
(* iteration it + p * m starts from the same pair, and the whole periods   *)
(* that fit before max_iter are stepped over at once.                      *)
Period(seen, centers, labels_old, it) ==
    LET back == {k \in DOMAIN seen :
                    seen[k].centers = centers /\ seen[k].labels_old = labels_old}
    IN  IF back = {} THEN 0 ELSE it - seen[CHOOSE k \in back : TRUE].it

SkipPeriods(p, it) == IF p = 0 THEN it ELSE it + p * ((max_iter - it) \div p)

(* _kmeans_single_lloyd: stop when the labels repeat; when the centres     *)
(* stop moving or max_iter is reached, label once more against the final   *)
(* centres.                                                                *)
RECURSIVE Lloyd(_, _, _, _, _)
Lloyd(X, centers, labels_old, it0, seen) ==
    With(SkipPeriods(Period(seen, centers, labels_old, it0), it0), LAMBDA it :
      With(EStep(X, centers), LAMBDA labels :
        With(MStep(X, centers, labels), LAMBDA new :
          IF labels = labels_old THEN [labels |-> labels, centers |-> new, n_iter |-> it]
          ELSE IF NoShift(centers, new) \/ it = max_iter
          THEN [labels |-> EStep(X, new), centers |-> new, n_iter |-> it]
          ELSE With(IF it = it0
                    THEN Append(seen, [centers |-> centers, labels_old |-> labels_old,
                                       it |-> it])
                    ELSE <<>>,
                    LAMBDA more : Lloyd(X, new, labels, it + 1, more)))))

RECURSIVE LcmUpTo(_)
LcmUpTo(k) == IF k = 0 THEN 1 ELSE Lcm(LcmUpTo(k - 1), k)

\* The inertia times LcmUpTo(num_students)^2, an integer.
Inertia(X, centers, labels) ==
    LET q == LcmUpTo(num_students)
    IN  SumTo([i \in Students |->
                  DistNum(X[i], centers[labels[i]]) * Sq(q \div centers[labels[i]].w)],
              num_students)

\* _is_same_clustering: labels2 is a function of labels1.
IsSameClustering(labels1, labels2) ==
    \A i, k \in Students : labels1[i] = labels1[k] => labels2[i] = labels2[k]

(* KMeans.fit: n_init seedings from one generator, each refined; a run    *)
(* replaces the best so far when its inertia is lower and its clustering   *)
(* is another one.                                                         *)
NoInertia == -1

RECURSIVE BestOfRuns(_, _, _, _, _)
BestOfRuns(X, D, s, run, best) ==
    IF run > n_init THEN best
    ELSE With(InitCentroids(X, D, s), LAMBDA init :
         With(Lloyd(X, init.centers, [i \in Students |-> -1], 1, <<>>), LAMBDA r :
           With([labels_ |-> r.labels, inertia_ |-> Inertia(X, r.centers, r.labels),
                 n_iter_ |-> r.n_iter],
                LAMBDA this :
             IF best.inertia_ = NoInertia
                \/ (/\ this.inertia_ < best.inertia_
                    /\ ~IsSameClustering(this.labels_, best.labels_))
             THEN BestOfRuns(X, D, init.rs, run + 1, this)
             ELSE BestOfRuns(X, D, init.rs, run + 1, best))))

\* A check that counts the distinct rows.
TooFewSamples_distinct(scaled) ==
    Cardinality({scaled[i] : i \in DOMAIN scaled}) < n_clusters

\* KMeans refuses fewer rows than clusters (ValueError).
TooFewSamples(scaled) == Len(scaled) < n_clusters

\* fit: the fitted attributes of the best run; labels_ has one entry per
\* row, in row order.
Fit(scaled, rs) ==
    With(Grid(scaled), LAMBDA X :
      With(PairDist(X), LAMBDA D :
        With([labels_ |-> <<>>, inertia_ |-> NoInertia, n_iter_ |-> 0], LAMBDA none :
          BestOfRuns(X, D, rs, 1, none))))

\* A column assignment that also writes comprehension over attention.
WithColumn_clobber(frame, name, values) ==
    [c \in DOMAIN frame \cup {name} |->
        IF c = name THEN values
        ELSE IF c = "attention" THEN frame["comprehension"] ELSE frame[c]]

WithColumn(frame, name, values) ==
    [c \in DOMAIN frame \cup {name} |-> IF c = name THEN values ELSE frame[c]]

DropColumn(frame, name) == [c \in DOMAIN frame \ {name} |-> frame[c]]

\* kmeans.fit_predict(df_scaled), assigned to a new column of df.
Cluster ==
    /\ pc = "cluster"
    /\ IF TooFewSamples(df_scaled)
       THEN pc' = "error" /\ UNCHANGED <<df, kmeans>>
       ELSE \E rs \in RandomStates(random_state) :
              /\ kmeans' = Fit(df_scaled, rs)
              /\ df' = WithColumn(df, "persona_cluster", kmeans'.labels_)
              /\ pc' = "label"
    /\ UNCHANGED <<source, arrays, df_scaled, df_output, disk, previous>>

\* A table keyed from 1.
persona_names_onebased ==
    (1 :> "Balanced Average") @@ (2 :> "High-Skill Achiever")
    @@ (3 :> "Low Engagement/Struggler")

persona_names ==
    (0 :> "Balanced Average") @@ (1 :> "High-Skill Achiever")
    @@ (2 :> "Low Engagement/Struggler")

\* Series.map(dict): a value that is no key of the dict maps to NaN.
Map(series, dict) ==
    [i \in DOMAIN series |-> IF series[i] \in DOMAIN dict THEN dict[series[i]] ELSE NaN]

Label ==
    /\ pc = "label"
    /\ df' = WithColumn(df, "learning_persona", Map(df["persona_cluster"], persona_names))
    /\ pc' = "makedirs"
    /\ UNCHANGED <<source, arrays, df_scaled, kmeans, df_output, disk, previous>>

\* ------------------------------------------------------------- 3. export

\* os.makedirs either creates the directory or raises OSError.
MakeDirs ==
    /\ pc = "makedirs"
    /\ \/ public_exists /\ pc' = "export" /\ UNCHANGED public_exists
       \/ ~public_exists /\ public_exists' = TRUE /\ pc' = "export"
       \/ ~public_exists /\ pc' = "error" /\ UNCHANGED public_exists
    /\ UNCHANGED <<source, arrays, frames, student_data, previous>>

\* Rows written last first.
ToRecords_reversed(frame) ==
    [i \in Students |-> [c \in DOMAIN frame |-> frame[c][num_students + 1 - i]]]

\* orient='records': one object per row, in row order.
ToRecords(frame) == [i \in Students |-> [c \in DOMAIN frame |-> frame[c][i]]]

File(rows) == [exists |-> TRUE, rows |-> rows]

NoFile == [exists |-> FALSE, rows |-> <<>>]

(* df.drop gives a new frame.  to_json opens the file for writing, which   *)
(* empties it, and writes the rows: open may fail (the file is left as it  *)
(* was) and the write may fail after any number of rows.  Either error     *)
(* leaves the script with an uncaught exception.                           *)
Export ==
    /\ pc = "export"
    /\ df_output' = DropColumn(df, "persona_cluster")
    /\ \/ pc' = "error" /\ UNCHANGED student_data
       \/ \E k \in 0..(num_students - 1) :
              /\ student_data' = File(SubSeq(ToRecords(df_output'), 1, k))
              /\ pc' = "error"
       \/ /\ student_data' = File(ToRecords(df_output'))
          /\ pc' = "done"
    /\ UNCHANGED <<source, arrays, df, df_scaled, kmeans, public_exists, previous>>

\* The script is run again after a run that completed: a new process, the
\* same record source, the same disk.
Restart ==
    /\ pc = "done"
    /\ pc' = "generate"
    /\ previous' = student_data.rows
    /\ classes' = <<>> /\ comprehension' = <<>> /\ attention' = <<>>
    /\ focus' = <<>> /\ retention' = <<>> /\ engagement_time' = <<>>
    /\ score_raw' = <<>> /\ assessment_score' = <<>>
    /\ df' = <<>> /\ df_scaled' = <<>> /\ kmeans' = <<>> /\ df_output' = <<>>
    /\ UNCHANGED <<source, disk>>

Init ==
    /\ pc = "generate"
    /\ source \in [Students -> Draws]
    /\ classes = <<>> /\ comprehension = <<>> /\ attention = <<>>
    /\ focus = <<>> /\ retention = <<>> /\ engagement_time = <<>>
    /\ score_raw = <<>> /\ assessment_score = <<>>
    /\ df = <<>> /\ df_scaled = <<>> /\ kmeans = <<>> /\ df_output = <<>>
    /\ public_exists = FALSE
    /\ student_data = NoFile
    /\ previous = <<>>

Next == Generate \/ Scale \/ Cluster \/ Label \/ MakeDirs \/ Export \/ Restart

Spec == Init /\ [][Next]_vars

\* ------------------------------------------------------------ properties

Personas == {"Balanced Average", "High-Skill Achiever", "Low Engagement/Struggler"}

Clustered == "persona_cluster" \in DOMAIN df

Labelled == "learning_persona" \in DOMAIN df

Scaled == DOMAIN df_scaled # {}

RowsOf(j) == {i \in Students : df["persona_cluster"][i] = j}

\* The sum over cluster j of its rows' scaled features (on the grid): the
\* cluster's mean composite times 5 * |RowsOf(j)|.
CompositeSum(j) ==
    SumTo([i \in Students |->
              IF i \in RowsOf(j)
              THEN SumTo(Grid(df_scaled)[i], Len(clustering_features)) ELSE 0],
          num_students)

\* Cluster j's mean composite is above cluster k's.
Above(j, k) ==
    CompositeSum(j) * Cardinality(RowsOf(k)) > CompositeSum(k) * Cardinality(RowsOf(j))

Ranked ==
    /\ \A j \in Clusters : RowsOf(j) # {}
    /\ \A j, k \in Clusters : j # k => Above(j, k) \/ Above(k, j)

RankLabel(j) ==
    LET above == Cardinality({k \in Clusters : Above(k, j)})
    IN  IF above = 0 THEN "High-Skill Achiever"
        ELSE IF above = 1 THEN "Balanced Average" ELSE "Low Engagement/Struggler"

\* C1: once the records are labelled, and the three clusters can be ranked
\* by mean composite score, every record's persona is the one its cluster's
\* rank gives: highest High-Skill Achiever, middle Balanced Average, lowest
\* Low Engagement/Struggler, whatever index the cluster has.
C1_LabelsFollowCompositeRank ==
    (Labelled /\ Ranked) =>
        \A i \in Students :
            df["learning_persona"][i] = RankLabel(df["persona_cluster"][i])

\* C2: every labelled record, in the frame and in the exported file, has
\* one of the three fixed personas; none is NaN.
C2_LabelTotality ==
    /\ Labelled => \A i \in Students : df["learning_persona"][i] \in Personas
    /\ \A k \in DOMAIN student_data.rows :
           student_data.rows[k]["learning_persona"] \in Personas

\* C2 witness: a completed export in which all three cluster indices occur.
C2_Witness ==
    /\ pc = "done"
    /\ {df["persona_cluster"][i] : i \in Students} = Clusters
    /\ Len(student_data.rows) = num_students

Generated == DOMAIN assessment_score # {}

\* C3: every assessment_score, in the array, the frame and the file, is the
\* rounded raw score clipped into 0..100: 0 when it rounds below 0, 100
\* when it rounds above 100, the rounded value otherwise.
C3_ScoreClipped ==
    /\ Generated =>
           \A i \in Students :
               /\ assessment_score[i] \in 0..100
               /\ Round0(score_raw[i]) < 0 => assessment_score[i] = 0
               /\ Round0(score_raw[i]) > 100 => assessment_score[i] = 100
               /\ Round0(score_raw[i]) \in 0..100
                     => assessment_score[i] = Round0(score_raw[i])
               /\ df["assessment_score"][i] = assessment_score[i]
    /\ \A k \in DOMAIN student_data.rows :
           student_data.rows[k]["assessment_score"] \in 0..100

\* C3 witness: an exported run with a raw score below 0 and one above 100.
C3_Witness ==
    /\ pc = "done"
    /\ \E i, k \in Students :
           /\ score_raw[i] < 0 /\ student_data.rows[i]["assessment_score"] = 0
           /\ score_raw[k] > 10000 /\ student_data.rows[k]["assessment_score"] = 100

\* C4: a completed export has one row per input record, in input order:
\* row N carries record N's id and record N's raw fields.
C4_OrderPreserved ==
    pc = "done" =>
        /\ Len(student_data.rows) = num_students
        /\ \A i \in Students :
               /\ student_data.rows[i]["student_id"] = student_ids[i]
               /\ student_data.rows[i]["name"] = names[i]
               /\ student_data.rows[i]["class"] = source[i].class
               /\ student_data.rows[i]["comprehension"] = source[i].comprehension
               /\ student_data.rows[i]["attention"] = source[i].attention
               /\ student_data.rows[i]["focus"] = source[i].focus
               /\ student_data.rows[i]["retention"] = source[i].retention
               /\ student_data.rows[i]["engagement_time"] = source[i].engagement_time
               /\ student_data.rows[i]["learning_persona"] = df["learning_persona"][i]

\* C4 witness: a completed export of records that are not all alike.
C4_Witness ==
    /\ pc = "done"
    /\ source[1] # source[num_students]
    /\ Len(student_data.rows) = num_students

\* C5: once scaled, every value is (value - min) / (max - min) over the
\* run's records and lies in [0, 1]; on a feature with max = min it is the
\* number 0; and scaling raises nothing.
C5_MinMaxScaled ==
    Scaled =>
        /\ pc # "scale"
        /\ \A f \in Features :
               LET col == df[clustering_features[f]]
                   lo == SeqMin(col)
                   hi == SeqMax(col)
               IN  \A i \in Students :
                       LET v == df_scaled[i][f]
                       IN  /\ v[2] > 0
                           /\ 0 <= v[1] /\ v[1] <= v[2]
                           /\ hi > lo => v[1] * (hi - lo) = (col[i] - lo) * v[2]
                           /\ hi = lo => v[1] = 0

\* C5 witness: a scaled run with a feature of no spread (attention) beside
\* one that spreads over the whole of [0, 1] (comprehension).
C5_Witness ==
    /\ pc = "cluster"
    /\ SeqMin(df["attention"]) = SeqMax(df["attention"])
    /\ \E i, k \in Students :
           /\ df_scaled[i][1][1] = 0
           /\ df_scaled[k][1][1] = df_scaled[k][1][2]
           /\ df_scaled[k][1][2] > 1

Degenerate == Scaled /\ Cardinality({df_scaled[i] : i \in Students}) < n_clusters

\* C6: with fewer than 3 distinct feature vectors the clustering step raises
\* nothing, ends within max_iter iterations, gives every record a cluster
\* index in 0..2, and every record then gets one of the three personas.
C6_DegenerateInput ==
    Degenerate =>
        /\ pc # "cluster" => Clustered
        /\ Clustered =>
               /\ kmeans.n_iter_ \in 1..max_iter
               /\ DOMAIN df["persona_cluster"] = Students
               /\ \A i \in Students : df["persona_cluster"][i] \in Clusters
        /\ pc \in {"makedirs", "export", "done"} =>
               /\ Labelled
               /\ \A i \in Students : df["learning_persona"][i] \in Personas

\* C6 witness: a labelled run on two distinct feature vectors whose best
\* k-means run stopped at the iteration bound, a cluster left empty.
C6_Witness ==
    /\ Degenerate
    /\ pc = "done"
    /\ kmeans.n_iter_ = max_iter
    /\ \E j \in Clusters : RowsOf(j) = {}

\* C7: the file is absent or holds the full record set, on every path.
C7_ExportAllOrNothing ==
    student_data.exists => Len(student_data.rows) = num_students

\* C8: a run of the script on the record set of the run before it writes
\* the same rows, persona for persona.
C8_Deterministic ==
    (pc = "done" /\ previous # <<>>) => student_data.rows = previous

\* C8 witness: a second completed run over three non-empty clusters.
C8_Witness ==
    /\ pc = "done"
    /\ previous # <<>>
    /\ \A j \in Clusters : RowsOf(j) # {}

RawColumns ==
    {"student_id", "name", "class", "comprehension", "attention", "focus",
     "retention", "assessment_score", "engagement_time"}

Stages == {"scale", "cluster", "label", "makedirs", "export"}

====
